---- MODULE Spec2Model ----
(***************************************************************************)
(* Model of the crate enumerate-number (src/src/lib.rs): the adapter       *)
(* Enumerate<I, C> pairing the elements of an inner iterator with a        *)
(* counter of a caller-chosen numeric type.                                *)
(*                                                                         *)
(* The inner iterator I is modelled as a fused, exact-size, double-ended   *)
(* iterator over a finite sequence (a range, as in the tests): its         *)
(* state is the sequence of elements it has not produced yet.  Its nth and  *)
(* nth_back consume every element when they run off the end.  The counter  *)
(* C is modelled as u8 with wrapping arithmetic (a build without overflow  *)
(* checks); under Spec the lengths stay below 2^8 and no addition          *)
(* overflows, so a build with overflow checks behaves the same there.      *)
(***************************************************************************)
EXTENDS Integers, Sequences, FiniteSets

(* ---- bounds of the model ---- *)
MaxLen == 4          \* longest inner sequence wrapped
MaxN == 4            \* largest argument passed to nth / nth_back

(* ---- program constants ---- *)
CounterBits == 8     \* impl_counter!(u8)

RECURSIVE Pow2(_)
Pow2(w) == IF w = 0 THEN 1 ELSE 2 * Pow2(w - 1)

CounterMod == Pow2(CounterBits)

(* Option<T>: None is the empty sequence, Some(x) the one-element sequence *)
None == << >>
Some(x) == << x >>

(* ---- Counter for u8 (impl_counter!) ---- *)
\* mutant: inc subtracts instead of adding
inc_sub(c) == (c - 1) % CounterMod

inc(c) == (c + 1) % CounterMod

dec(c) == (c - 1) % CounterMod

\* mutant: inc_n ignores n and adds one
inc_n_one(c, n) == (c + 1) % CounterMod

\* mutant: the cast of n saturates at the largest u8 instead of truncating
inc_n_saturating_cast(c, n) ==
    (c + (IF n > CounterMod - 1 THEN CounterMod - 1 ELSE n)) % CounterMod

\* n as u8 truncates the usize to the low 8 bits, then += adds it
inc_n(c, n) == (c + (n % CounterMod)) % CounterMod

\* Default::default() of the counter type
Counter_default == 0

(* ---- Counter for any integer $ty and either build (impl_counter!) ---- *)
\* the 8-bit integer types the macro is instantiated for
I8 == [bits |-> CounterBits, signed |-> TRUE]
U8 == [bits |-> CounterBits, signed |-> FALSE]

IntTypes == {I8, U8}

Ty_MIN(ty) == IF ty.signed THEN 0 - Pow2(ty.bits - 1) ELSE 0

Ty_MAX(ty) == IF ty.signed THEN Pow2(ty.bits - 1) - 1 ELSE Pow2(ty.bits) - 1

\* the value of type ty congruent to x modulo 2^bits
Ty_wrap(ty, x) == ((x - Ty_MIN(ty)) % Pow2(ty.bits)) + Ty_MIN(ty)

\* n as $ty: an integer cast keeps the low bits and never fails
Ty_cast(ty, n) == Ty_wrap(ty, n)

\* outcome of a counter operation: the value now stored, or a panic that
\* left the stored value alone
Stored(v) == [panic |-> FALSE, val |-> v]
Panicked(v) == [panic |-> TRUE, val |-> v]

\* *self += b and *self -= b: with overflow checks (the dev and test
\* profiles) an overflow panics, without them (release) it wraps
Ty_add_assign(ty, checks, a, b) ==
    IF a + b >= Ty_MIN(ty) /\ a + b <= Ty_MAX(ty) THEN Stored(a + b)
    ELSE IF checks THEN Panicked(a)
    ELSE Stored(Ty_wrap(ty, a + b))

Ty_sub_assign(ty, checks, a, b) ==
    IF a - b >= Ty_MIN(ty) /\ a - b <= Ty_MAX(ty) THEN Stored(a - b)
    ELSE IF checks THEN Panicked(a)
    ELSE Stored(Ty_wrap(ty, a - b))

Counter_inc(ty, checks, c) == Ty_add_assign(ty, checks, c, Ty_cast(ty, 1))

Counter_dec(ty, checks, c) == Ty_sub_assign(ty, checks, c, Ty_cast(ty, 1))

Counter_inc_n(ty, checks, c, n) == Ty_add_assign(ty, checks, c, Ty_cast(ty, n))

\* a caller running c.inc() n times, one call after the other; a panic ends
\* the run (the run is split in halves to keep the evaluation shallow)
RECURSIVE IncTimes(_, _, _, _)
IncTimes(ty, checks, c, n) ==
    IF n = 0 THEN Stored(c)
    ELSE IF n = 1 THEN Counter_inc(ty, checks, c)
    ELSE LET h == n \div 2
             r == IncTimes(ty, checks, c, h)
         IN  IF r.panic THEN r ELSE IncTimes(ty, checks, r.val, n - h)

(* ---- the inner iterator (self.iter) ---- *)
Iter_next(it) ==
    IF it = << >> THEN [iter |-> it, ret |-> None]
    ELSE [iter |-> Tail(it), ret |-> Some(Head(it))]

Iter_nth(it, n) ==
    IF n >= Len(it) THEN [iter |-> << >>, ret |-> None]
    ELSE [iter |-> SubSeq(it, n + 2, Len(it)), ret |-> Some(it[n + 1])]

Iter_next_back(it) ==
    IF it = << >> THEN [iter |-> it, ret |-> None]
    ELSE [iter |-> SubSeq(it, 1, Len(it) - 1), ret |-> Some(it[Len(it)])]

Iter_nth_back(it, n) ==
    IF n >= Len(it) THEN [iter |-> << >>, ret |-> None]
    ELSE [iter |-> SubSeq(it, 1, Len(it) - n - 1), ret |-> Some(it[Len(it) - n])]

Iter_len(it) == Len(it)

\* an exact-size iterator reports (len, Some(len))
Iter_size_hint(it) == <<Len(it), Some(Len(it))>>

\* count consumes the iterator and returns how many elements it produced
Iter_count(it) == Len(it)

(* ---- Enumerate: the methods as functions of (self.iter, self.count) ---- *)
\* mutant: next advances the counter before the ? on the inner result
Enumerate_next_early(it, c) ==
    LET a == Iter_next(it) IN
    IF a.ret = None THEN [iter |-> a.iter, count |-> inc(c), ret |-> None]
    ELSE [iter |-> a.iter, count |-> inc(c), ret |-> Some(<<c, a.ret[1]>>)]

\* mutant: next captures the counter after advancing it
Enumerate_next_late(it, c) ==
    LET a == Iter_next(it) IN
    IF a.ret = None THEN [iter |-> a.iter, count |-> c, ret |-> None]
    ELSE [iter |-> a.iter, count |-> inc(c), ret |-> Some(<<inc(c), a.ret[1]>>)]

Enumerate_next(it, c) ==
    LET a == Iter_next(it) IN
    IF a.ret = None THEN [iter |-> a.iter, count |-> c, ret |-> None]
    ELSE LET i == c IN
         [iter |-> a.iter, count |-> inc(c), ret |-> Some(<<i, a.ret[1]>>)]

\* mutant: nth forgets self.count.inc_n(n)
Enumerate_nth_no_inc_n(it, c, n) ==
    LET a == Iter_nth(it, n) IN
    IF a.ret = None THEN [iter |-> a.iter, count |-> c, ret |-> None]
    ELSE [iter |-> a.iter, count |-> inc(c), ret |-> Some(<<c, a.ret[1]>>)]

\* mutant: nth forgets the trailing self.count.inc()
Enumerate_nth_no_inc(it, c, n) ==
    LET a == Iter_nth(it, n) IN
    IF a.ret = None THEN [iter |-> a.iter, count |-> c, ret |-> None]
    ELSE LET i == inc_n(c, n) IN
         [iter |-> a.iter, count |-> i, ret |-> Some(<<i, a.ret[1]>>)]

\* mutant: nth runs self.count.inc_n(n) before the ? on the inner result
Enumerate_nth_inc_n_early(it, c, n) ==
    LET a == Iter_nth(it, n) IN
    IF a.ret = None THEN [iter |-> a.iter, count |-> inc_n(c, n), ret |-> None]
    ELSE LET i == inc_n(c, n) IN
         [iter |-> a.iter, count |-> inc(i), ret |-> Some(<<i, a.ret[1]>>)]

\* mutant: nth skips one element more than asked
Enumerate_nth_skip_more(it, c, n) ==
    LET a == Iter_nth(it, n + 1) IN
    IF a.ret = None THEN [iter |-> a.iter, count |-> c, ret |-> None]
    ELSE LET i == inc_n(c, n) IN
         [iter |-> a.iter, count |-> inc(i), ret |-> Some(<<i, a.ret[1]>>)]

Enumerate_nth(it, c, n) ==
    LET a == Iter_nth(it, n) IN
    IF a.ret = None THEN [iter |-> a.iter, count |-> c, ret |-> None]
    ELSE LET i == inc_n(c, n) IN
         [iter |-> a.iter, count |-> inc(i), ret |-> Some(<<i, a.ret[1]>>)]

\* mutant: next_back reads self.iter.len() before taking the element
Enumerate_next_back_len_first(it, c) ==
    LET a == Iter_next_back(it) IN
    IF a.ret = None THEN [iter |-> a.iter, count |-> c, ret |-> None]
    ELSE [iter |-> a.iter, count |-> c,
          ret |-> Some(<<inc_n(c, Iter_len(it)), a.ret[1]>>)]

Enumerate_next_back(it, c) ==
    LET a == Iter_next_back(it) IN
    IF a.ret = None THEN [iter |-> a.iter, count |-> c, ret |-> None]
    ELSE LET len == Iter_len(a.iter)
             count1 == inc_n(c, len)
         IN  [iter |-> a.iter, count |-> c, ret |-> Some(<<count1, a.ret[1]>>)]

\* mutant: nth_back adds the skipped elements to the remaining length
Enumerate_nth_back_plus_n(it, c, n) ==
    LET a == Iter_nth_back(it, n) IN
    IF a.ret = None THEN [iter |-> a.iter, count |-> c, ret |-> None]
    ELSE [iter |-> a.iter, count |-> c,
          ret |-> Some(<<inc_n(c, Iter_len(a.iter) + n), a.ret[1]>>)]

\* mutant: nth_back runs inc_n on self.count instead of on a copy
Enumerate_nth_back_in_place(it, c, n) ==
    LET a == Iter_nth_back(it, n) IN
    IF a.ret = None THEN [iter |-> a.iter, count |-> c, ret |-> None]
    ELSE LET count1 == inc_n(c, Iter_len(a.iter)) IN
         [iter |-> a.iter, count |-> count1, ret |-> Some(<<count1, a.ret[1]>>)]

Enumerate_nth_back(it, c, n) ==
    LET a == Iter_nth_back(it, n) IN
    IF a.ret = None THEN [iter |-> a.iter, count |-> c, ret |-> None]
    ELSE LET len == Iter_len(a.iter)
             count1 == inc_n(c, len)
         IN  [iter |-> a.iter, count |-> c, ret |-> Some(<<count1, a.ret[1]>>)]

\* the closure of fold, driven by the inner fold over the remaining elements;
\* the caller's f pushes each item onto the accumulator, as in the tests
\* mutant: the closure of fold advances the counter before calling f
RECURSIVE fold_loop_inc_first(_, _, _)
fold_loop_inc_first(it, cnt, acc) ==
    IF it = << >> THEN acc
    ELSE fold_loop_inc_first(Tail(it), inc(cnt),
                             Append(acc, <<inc(cnt), Head(it)>>))

RECURSIVE fold_loop(_, _, _)
fold_loop(it, cnt, acc) ==
    IF it = << >> THEN acc
    ELSE fold_loop(Tail(it), inc(cnt), Append(acc, <<cnt, Head(it)>>))

Enumerate_fold(it, c) == fold_loop(it, c, << >>)

\* mutant: the closure of rfold decrements the counter after calling f
RECURSIVE rfold_loop_dec_last(_, _, _)
rfold_loop_dec_last(it, cnt, acc) ==
    IF it = << >> THEN acc
    ELSE rfold_loop_dec_last(SubSeq(it, 1, Len(it) - 1), dec(cnt),
                             Append(acc, <<cnt, it[Len(it)]>>))

RECURSIVE rfold_loop(_, _, _)
rfold_loop(it, cnt, acc) ==
    IF it = << >> THEN acc
    ELSE LET cnt1 == dec(cnt) IN
         rfold_loop(SubSeq(it, 1, Len(it) - 1), cnt1,
                    Append(acc, <<cnt1, it[Len(it)]>>))

Enumerate_rfold(it, c) == rfold_loop(it, inc_n(c, Iter_len(it)), << >>)

\* mutant: size_hint subtracts what the counter has already handed out
Enumerate_size_hint_less_count(it, c) ==
    <<Len(it) - c, Some(Len(it) - c)>>

Enumerate_size_hint(it, c) == Iter_size_hint(it)

\* mutant: len reports the position after the last remaining element
Enumerate_len_plus_count(it, c) == inc_n(c, Iter_len(it))

Enumerate_len(it, c) == Iter_len(it)

\* mutant: count runs the counter over the remaining elements and returns it
Enumerate_count_by_counter(it, c) == inc_n(c, Iter_count(it))

Enumerate_count(it, c) == Iter_count(it)

(* ---- state ---- *)
VARIABLES
    iter,       \* self.iter: the elements the inner iterator still holds
    count,      \* self.count
    alive,      \* the adapter has not been moved into fold / rfold
    op,         \* the last method called
    arg,        \* its argument n (0 when it takes none)
    ret,        \* what it returned (Option<(C, Item)>)
    calls,      \* the items the last fold / rfold passed to f, in order
    orig,       \* history: the sequence the inner iterator was created over
    k,          \* history: elements the inner iterator gave up at the front
    m,          \* history: elements the inner iterator gave up at the back
    pre,        \* history: iter, count, k, m before the last method call
    yielded,    \* history: every Some the adapter returned, in order
    mode,       \* history: "next" while only next was called, "steps" while
                \* only next / next_back were, "any" otherwise
    exhausted,  \* history: Some(count) as the first None was returned
    answer,     \* what the last size_hint, len or count returned, or None
    ctr         \* the counter type C and the build, and a counter of that
                \* type driven on its own: its value at the start, the n
                \* passed, and what inc_n(n) and n calls of inc() left

vars == <<iter, count, alive, op, arg, ret, calls, orig, k, m, pre, yielded,
          mode, exhausted, answer, ctr>>

\* the range 0..len, as wrapped by the tests: (0..5).enumerate_i16()
Range(len) == [i \in 1..len |-> i - 1]

\* EnumerateNumber::enumerate_u8 over a range of at most MaxLen elements
Init ==
    /\ orig \in {Range(len) : len \in 0..MaxLen}
    /\ iter = orig
    /\ count = Counter_default
    /\ alive = TRUE
    /\ op = "enumerate_u8"
    /\ arg = 0
    /\ ret = None
    /\ calls = << >>
    /\ k = 0
    /\ m = 0
    /\ pre = [iter |-> orig, count |-> Counter_default, k |-> 0, m |-> 0]
    /\ yielded = << >>
    /\ mode = "next"
    /\ exhausted = None
    /\ answer = None
    /\ ctr = [ty |-> U8, checks |-> FALSE, start |-> Counter_default, n |-> 0,
              by_inc_n |-> None, by_inc |-> None]

ModeAfter(name) ==
    IF name = "next" THEN mode
    ELSE IF name = "next_back" /\ mode # "any" THEN "steps"
    ELSE "any"

\* history kept by every step method
Record(name, n, r, pos) ==
    /\ op' = name
    /\ arg' = n
    /\ ret' = r.ret
    /\ iter' = r.iter
    /\ count' = r.count
    /\ pre' = [iter |-> iter, count |-> count, k |-> k, m |-> m]
    /\ mode' = ModeAfter(name)
    /\ yielded' = IF r.ret = None THEN yielded
                  ELSE Append(yielded, [op |-> name, n |-> n, c |-> r.ret[1][1],
                                        e |-> r.ret[1][2], pos |-> pos])
    /\ exhausted' = IF r.ret = None /\ exhausted = None THEN Some(r.count)
                    ELSE exhausted
    /\ answer' = None
    /\ UNCHANGED <<alive, calls, orig, ctr>>

next ==
    /\ alive
    /\ Record("next", 0, Enumerate_next(iter, count), k)
    /\ k' = k + (Len(iter) - Len(iter'))
    /\ m' = m

nth ==
    /\ alive
    /\ \E n \in 0..MaxN :
          Record("nth", n, Enumerate_nth(iter, count, n), k + n)
    /\ k' = k + (Len(iter) - Len(iter'))
    /\ m' = m

next_back ==
    /\ alive
    /\ Record("next_back", 0, Enumerate_next_back(iter, count),
              Len(orig) - m - 1)
    /\ m' = m + (Len(iter) - Len(iter'))
    /\ k' = k

nth_back ==
    /\ alive
    /\ \E n \in 0..MaxN :
          Record("nth_back", n, Enumerate_nth_back(iter, count, n),
                 Len(orig) - m - n - 1)
    /\ m' = m + (Len(iter) - Len(iter'))
    /\ k' = k

\* fold and rfold take self by value: the adapter and its inner iterator
\* are gone afterwards
fold ==
    /\ alive
    /\ alive' = FALSE
    /\ op' = "fold"
    /\ arg' = 0
    /\ calls' = Enumerate_fold(iter, count)
    /\ pre' = [iter |-> iter, count |-> count, k |-> k, m |-> m]
    /\ iter' = << >>
    /\ k' = k + Len(iter)
    /\ mode' = ModeAfter("fold")
    /\ answer' = None
    /\ UNCHANGED <<count, ret, orig, m, yielded, exhausted, ctr>>

rfold ==
    /\ alive
    /\ alive' = FALSE
    /\ op' = "rfold"
    /\ arg' = 0
    /\ calls' = Enumerate_rfold(iter, count)
    /\ pre' = [iter |-> iter, count |-> count, k |-> k, m |-> m]
    /\ iter' = << >>
    /\ m' = m + Len(iter)
    /\ mode' = ModeAfter("rfold")
    /\ answer' = None
    /\ UNCHANGED <<count, ret, orig, k, yielded, exhausted, ctr>>

\* size_hint and len take &self: nothing of the adapter changes
Query(name, a) ==
    /\ op' = name
    /\ arg' = 0
    /\ answer' = Some(a)
    /\ pre' = [iter |-> iter, count |-> count, k |-> k, m |-> m]
    /\ UNCHANGED <<iter, count, alive, ret, calls, orig, k, m, yielded, mode,
                   exhausted, ctr>>

size_hint ==
    /\ alive
    /\ Query("size_hint", Enumerate_size_hint(iter, count))

len ==
    /\ alive
    /\ Query("len", Enumerate_len(iter, count))

\* count takes self by value, like fold
count_ ==
    /\ alive
    /\ alive' = FALSE
    /\ op' = "count"
    /\ arg' = 0
    /\ answer' = Some(Enumerate_count(iter, count))
    /\ pre' = [iter |-> iter, count |-> count, k |-> k, m |-> m]
    /\ iter' = << >>
    /\ k' = k + Len(iter)
    /\ mode' = ModeAfter("count")
    /\ UNCHANGED <<count, ret, calls, orig, m, yielded, exhausted, ctr>>

Next ==
    \/ next \/ nth \/ next_back \/ nth_back \/ fold \/ rfold
    \/ size_hint \/ len \/ count_

Spec == Init /\ [][Next]_vars

TypeOK ==
    /\ iter \in Seq(0..MaxLen)
    /\ Len(iter) <= MaxLen
    /\ count \in 0..(CounterMod - 1)
    /\ alive \in BOOLEAN
    /\ Len(orig) = k + m + Len(iter)

(* ---- reference runs: a method called repeatedly ---- *)

\* next called j >= 1 times, keeping the last result
RECURSIVE NextTimes(_, _, _)
NextTimes(it, c, j) ==
    LET r == Enumerate_next(it, c) IN
    IF j <= 1 THEN r ELSE NextTimes(r.iter, r.count, j - 1)

\* next_back called j >= 1 times, keeping the last result
RECURSIVE NextBackTimes(_, _, _)
NextBackTimes(it, c, j) ==
    LET r == Enumerate_next_back(it, c) IN
    IF j <= 1 THEN r ELSE NextBackTimes(r.iter, r.count, j - 1)

\* the pairs next yields when called until it returns None
RECURSIVE NextAll(_, _)
NextAll(it, c) ==
    LET r == Enumerate_next(it, c) IN
    IF r.ret = None THEN << >> ELSE <<r.ret[1]>> \o NextAll(r.iter, r.count)

\* the pairs next_back yields when called until it returns None
RECURSIVE NextBackAll(_, _)
NextBackAll(it, c) ==
    LET r == Enumerate_next_back(it, c) IN
    IF r.ret = None THEN << >> ELSE <<r.ret[1]>> \o NextBackAll(r.iter, r.count)

\* what the last step method left behind
Outcome == [iter |-> iter, count |-> count, ret |-> ret]

\* the counter of a fresh adapter advanced by j
FromDefault(j) == (Counter_default + j) % CounterMod

\* how far the successful front calls in y advanced the counter:
\* one for a next, n + 1 for an nth(n)
RECURSIVE FrontAdvance(_)
FrontAdvance(y) ==
    IF y = << >> THEN 0
    ELSE (IF Head(y).op \in {"next", "nth"} THEN Head(y).n + 1 ELSE 0)
         + FrontAdvance(Tail(y))

(* ---- C1 ---- *)
\* C1: every pair (c, e) yielded by next, nth, next_back or nth_back, in any
\* interleaving, has c equal to the zero-based position of e in the
\* original sequence.
C1_CounterIsPosition ==
    \A i \in DOMAIN yielded :
        /\ yielded[i].pos \in 0..(Len(orig) - 1)
        /\ orig[yielded[i].pos + 1] = yielded[i].e
        /\ yielded[i].c = FromDefault(yielded[i].pos)

\* a front step, then a skip from the back, then a skip from the front
C1_Witness ==
    /\ Len(yielded) >= 3
    /\ yielded[1].op = "next"
    /\ yielded[2].op = "nth_back" /\ yielded[2].n = 1
    /\ yielded[3].op = "nth" /\ yielded[3].n = 0

(* ---- C2 ---- *)
\* C2 as stated: after k elements were consumed from the front and m from
\* the back, through any interleaving of next, nth, next_back and nth_back
\* (skips that run off the end included), the stored counter is initial + k.
C2_CounterIsFrontConsumed ==
    alive => count = FromDefault(k)

\* C2, amended: the stored counter is the initial value plus the number of
\* elements consumed from the front by calls that yielded an element
\* (n + 1 for a successful nth(n)); it equals initial + k as long as the
\* inner iterator is not empty, and an nth that runs off the end empties the
\* inner iterator without advancing the counter.
C2_CounterIsFrontYielded ==
    alive =>
        /\ count = FromDefault(FrontAdvance(yielded))
        /\ (iter # << >> => count = FromDefault(k))
        /\ ((op = "nth" /\ ret = None) => (count = pre.count /\ iter = << >>))

\* an nth that ran off the end with elements left, after front and back steps
C2_Witness ==
    /\ op = "nth" /\ ret = None
    /\ pre.iter # << >>
    /\ pre.k > 0 /\ pre.m > 0
    /\ k > count

(* ---- C3 ---- *)
\* C3 as stated: after k elements were consumed from the front and m from
\* the back of a sequence of length L, with k + m < L, the next next_back
\* yields the counter initial + (L - k - m - 1).
C3_NextBackCounter ==
    (op = "next_back" /\ pre.k + pre.m < Len(orig)) =>
        /\ ret # None
        /\ ret[1][1] = FromDefault(Len(orig) - pre.k - pre.m - 1)

\* C3, amended: under the same conditions the next next_back yields the
\* stored counter plus the remaining length less one, that is
\* initial + k + (L - k - m - 1) = initial + (L - m - 1), the position of
\* the back element in the original sequence.
C3_NextBackCounterIsPosition ==
    (op = "next_back" /\ pre.k + pre.m < Len(orig)) =>
        /\ ret # None
        /\ ret[1][1] = (pre.count + (Len(orig) - pre.k - pre.m - 1)) % CounterMod
        /\ ret[1][1] = FromDefault(Len(orig) - pre.m - 1)
        /\ ret[1][2] = orig[Len(orig) - pre.m]

\* a next_back that yields after elements left at both ends
C3_Witness ==
    /\ op = "next_back" /\ ret # None
    /\ pre.k > 0 /\ pre.m > 0

(* ---- C4 ---- *)
\* C4 as stated: nth(n) returns the same outcome and leaves the same inner
\* remainder and the same stored counter as n + 1 calls of next, also when
\* fewer than n + 1 elements remain.
C4_NthIsRepeatedNext ==
    op = "nth" => Outcome = NextTimes(pre.iter, pre.count, arg + 1)

\* C4, amended: nth(n) returns the same outcome and leaves the same inner
\* remainder as n + 1 calls of next, and the same stored counter whenever it
\* yields an element; when fewer than n + 1 elements remain both report
\* exhaustion and leave the inner iterator empty, but nth leaves the stored
\* counter unchanged while the calls of next advance it by the number of
\* elements that remained.
C4_NthIsRepeatedNextUpToCounter ==
    op = "nth" =>
        LET r == NextTimes(pre.iter, pre.count, arg + 1) IN
        /\ ret = r.ret
        /\ iter = r.iter
        /\ (ret # None => count = r.count)
        /\ (ret = None =>
               /\ iter = << >>
               /\ count = pre.count
               /\ r.count = (pre.count + Len(pre.iter)) % CounterMod)

\* an nth(n), n >= 1, that ran off the end with elements left
C4_Witness ==
    /\ op = "nth" /\ arg >= 1 /\ ret = None
    /\ Len(pre.iter) >= 2
    /\ pre.count > 0

(* ---- C5 ---- *)
\* C5: from every reachable state nth_back(n) returns the same outcome and
\* leaves the same inner remainder and stored counter as n + 1 calls of
\* next_back.
C5_NthBackIsRepeatedNextBack ==
    op = "nth_back" => Outcome = NextBackTimes(pre.iter, pre.count, arg + 1)

\* an nth_back(n), n >= 1, that yields after elements left at both ends
C5_Witness ==
    /\ op = "nth_back" /\ arg >= 1 /\ ret # None
    /\ pre.k > 0 /\ pre.m > 0

(* ---- C6 ---- *)
\* C6: once next, next_back, nth or nth_back has returned None, every later
\* call of them returns None, every later fold or rfold returns its initial
\* accumulator without calling f, and the stored counter keeps the value it
\* had when None was first returned.
C6_Fused ==
    [][exhausted # None =>
          /\ ret' = None
          /\ calls' = << >>
          /\ count' = exhausted[1]
          /\ iter' = << >>]_vars

\* a fold after an nth ran off the end, elements having been yielded before
C6_Witness ==
    /\ exhausted # None
    /\ op = "fold"
    /\ yielded # << >>
    /\ count > 0

(* ---- C7 ---- *)
\* C7: from every reachable state with stored counter c and r elements
\* remaining, fold calls f exactly r times, in front-to-back element order,
\* with the counters c, c+1, ..., c+r-1: the pairs repeated calls of next
\* would have yielded from that state.
C7_FoldIsRepeatedNext ==
    op = "fold" =>
        /\ Len(calls) = Len(pre.iter)
        /\ \A j \in DOMAIN calls :
              calls[j] = <<(pre.count + j - 1) % CounterMod, pre.iter[j]>>
        /\ calls = NextAll(pre.iter, pre.count)

\* a fold over two or more elements after elements left at both ends
C7_Witness ==
    /\ op = "fold"
    /\ Len(calls) >= 2
    /\ pre.k > 0 /\ pre.m > 0

(* ---- C8 ---- *)
\* C8: from every reachable state rfold calls f once per remaining element,
\* in back-to-front order, with strictly descending counters, each the
\* position of its element in the original sequence: the pairs repeated
\* calls of next_back would have yielded from that state.
C8_RfoldIsRepeatedNextBack ==
    op = "rfold" =>
        /\ Len(calls) = Len(pre.iter)
        /\ \A j \in DOMAIN calls :
              /\ calls[j][1] = FromDefault(Len(orig) - pre.m - j)
              /\ calls[j][2] = orig[Len(orig) - pre.m - j + 1]
              /\ calls[j][2] = pre.iter[Len(pre.iter) - j + 1]
        /\ \A i, j \in DOMAIN calls : i < j => calls[i][1] > calls[j][1]
        /\ calls = NextBackAll(pre.iter, pre.count)

\* an rfold over two or more elements after elements left at both ends
C8_Witness ==
    /\ op = "rfold"
    /\ Len(calls) >= 2
    /\ pre.k > 0 /\ pre.m > 0

(* ---- C9 ---- *)
\* the successful calls in y are calls of next followed by calls of next_back
FrontThenBack(y) ==
    /\ \A i \in DOMAIN y : y[i].op \in {"next", "next_back"}
    /\ \A i, j \in DOMAIN y :
          (i < j /\ y[i].op = "next_back") => y[j].op = "next_back"

NumFront(y) == Cardinality({i \in DOMAIN y : y[i].op = "next"})

\* next was called k times and then next_back until it returned None
FrontThenBackDone ==
    /\ mode # "any"
    /\ FrontThenBack(yielded)
    /\ op = "next_back" /\ ret = None

\* C9: for a sequence of length L and 0 <= k <= L, k calls of next followed
\* by calls of next_back until None yield, for the elements taken from the
\* back, exactly the counters L-1, L-2, ..., k in that order.
C9_FrontThenBackCounters ==
    FrontThenBackDone =>
        LET kk == NumFront(yielded) IN
        /\ Len(yielded) = Len(orig)
        /\ \A i \in DOMAIN yielded :
              i > kk => yielded[i].c = FromDefault(Len(orig) - (i - kk))

\* one next, then three calls of next_back, then the None
C9_Witness ==
    /\ FrontThenBackDone
    /\ NumFront(yielded) = 1
    /\ Len(yielded) >= 3

(* ---- C10 ---- *)
\* C10: while only next is called on a sequence of length L, the stored
\* counter is the number of elements yielded so far and the j-th successful
\* next (j = 0..L-1) yields the counter j, so consuming the sequence to its
\* end yields the counters 0, 1, ..., L-1 in order.
C10_ForwardCounters ==
    mode = "next" =>
        /\ count = FromDefault(Len(yielded))
        /\ \A j \in DOMAIN yielded :
              yielded[j].c = FromDefault(j - 1) /\ yielded[j].e = orig[j]
        /\ (ret = None /\ op = "next" => Len(yielded) = Len(orig))

\* the sequence consumed to its end by next alone
C10_Witness ==
    /\ mode = "next" /\ op = "next" /\ ret = None
    /\ Len(yielded) >= 3

(* ---- C11 ---- *)
\* C11: in every reachable state, after any sequence of next, next_back, nth
\* and nth_back calls, the length and the size hint the adapter reports are
\* exactly the inner iterator's remaining length: the original length less
\* the elements consumed at the front and at the back, whatever the counter.
C11_LengthPassthrough ==
    /\ alive =>
          /\ Enumerate_len(iter, count) = Len(orig) - k - m
          /\ Enumerate_size_hint(iter, count)
                = <<Len(orig) - k - m, Some(Len(orig) - k - m)>>
    /\ op = "len" => answer = Some(Len(orig) - k - m)
    /\ op = "size_hint" =>
          answer = Some(<<Len(orig) - k - m, Some(Len(orig) - k - m)>>)

\* len called with elements left, after elements went at both ends
C11_Witness ==
    /\ op = "len" /\ answer = Some(2)
    /\ k > 0 /\ m > 0 /\ count > 0

(* ---- the counter on its own ---- *)
IncSlack == 1        \* how far around 0, 2^(w-1) and 2^w the n passed ranges

\* the n tried for a counter of type ty: around 0, around the largest
\* signed value and around 2^bits, beyond every value of the type
IncArgs(ty) ==
    {n \in (0 - IncSlack)..(Pow2(ty.bits) + IncSlack) :
        /\ n >= 0
        /\ \E b \in {0, Pow2(ty.bits - 1), Pow2(ty.bits)} :
              n >= b - IncSlack /\ n <= b + IncSlack}

\* a counter of any 8-bit integer type at any value, in either build
InitCounter ==
    /\ orig = Range(0)
    /\ iter = orig
    /\ count = Counter_default
    /\ alive = TRUE
    /\ op = "enumerate_number"
    /\ arg = 0
    /\ ret = None
    /\ calls = << >>
    /\ k = 0
    /\ m = 0
    /\ pre = [iter |-> orig, count |-> Counter_default, k |-> 0, m |-> 0]
    /\ yielded = << >>
    /\ mode = "next"
    /\ exhausted = None
    /\ answer = None
    /\ \E ty \in IntTypes, checks \in BOOLEAN :
          \E start \in Ty_MIN(ty)..Ty_MAX(ty), n \in IncArgs(ty) :
             ctr = [ty |-> ty, checks |-> checks, start |-> start, n |-> n,
                    by_inc_n |-> None, by_inc |-> None]

Adapter == <<iter, count, alive, op, arg, ret, calls, orig, k, m, pre,
             yielded, mode, exhausted, answer>>

call_inc_n ==
    /\ ctr.by_inc_n = None
    /\ ctr' = [ctr EXCEPT !.by_inc_n =
                 Some(Counter_inc_n(ctr.ty, ctr.checks, ctr.start, ctr.n))]
    /\ UNCHANGED Adapter

call_inc_times ==
    /\ ctr.by_inc = None
    /\ ctr' = [ctr EXCEPT !.by_inc =
                 Some(IncTimes(ctr.ty, ctr.checks, ctr.start, ctr.n))]
    /\ UNCHANGED Adapter

NextCounter == call_inc_n \/ call_inc_times

SpecCounter == InitCounter /\ [][NextCounter]_vars

(* ---- C12 ---- *)
\* C12: for every integer counter type, every starting value and every
\* n >= 0, larger than the type's maximum included, inc_n(n) leaves the
\* counter in the same state, or overflows in the same way, as n calls of
\* inc().
C12_IncNIsRepeatedInc ==
    (ctr.by_inc_n # None /\ ctr.by_inc # None) =>
        /\ ctr.by_inc_n[1].panic = ctr.by_inc[1].panic
        /\ ~ctr.by_inc[1].panic => ctr.by_inc_n[1].val = ctr.by_inc[1].val

(* ---- sequences longer than the counter's range ---- *)
LongSlack == 2       \* how far around 2^8 the lengths wrapped range
MaxLongCalls == 2    \* successful step and skip calls made on them
MaxFoldLen == 8      \* most elements left when fold or rfold is called

\* the lengths wrapped: around the number of values of the counter type
LongLens == (CounterMod - LongSlack)..(CounterMod + LongSlack)

\* the n passed to a far skip: it leaves a few elements of the sequence
FarArgs == (CounterMod - 3 * LongSlack)..(CounterMod - 2 * LongSlack)

\* EnumerateNumber::enumerate_u8 over a range of about 2^8 elements
InitLong ==
    /\ orig \in {Range(n) : n \in LongLens}
    /\ iter = orig
    /\ count = Counter_default
    /\ alive = TRUE
    /\ op = "enumerate_u8"
    /\ arg = 0
    /\ ret = None
    /\ calls = << >>
    /\ k = 0
    /\ m = 0
    /\ pre = [iter |-> orig, count |-> Counter_default, k |-> 0, m |-> 0]
    /\ yielded = << >>
    /\ mode = "next"
    /\ exhausted = None
    /\ answer = None
    /\ ctr = [ty |-> U8, checks |-> FALSE, start |-> Counter_default, n |-> 0,
              by_inc_n |-> None, by_inc |-> None]

MoreCalls == Len(yielded) < MaxLongCalls

long_next == MoreCalls /\ next

long_next_back == MoreCalls /\ next_back

long_nth_back == MoreCalls /\ nth_back

\* nth with an n that skips most of the sequence
long_nth ==
    /\ MoreCalls
    /\ alive
    /\ \E n \in FarArgs :
          Record("nth", n, Enumerate_nth(iter, count, n), k + n)
    /\ k' = k + (Len(iter) - Len(iter'))
    /\ m' = m

long_fold == Len(iter) <= MaxFoldLen /\ fold

long_rfold == Len(iter) <= MaxFoldLen /\ rfold

NextLong ==
    \/ long_next \/ long_next_back \/ long_nth \/ long_nth_back
    \/ long_fold \/ long_rfold
    \/ size_hint \/ len \/ count_

SpecLong == InitLong /\ [][NextLong]_vars

(* ---- C13 ---- *)
\* C13: from every reachable state count returns exactly the number of
\* elements left in the inner iterator and neither reads nor advances the
\* counter: the result is the same for every counter value, also when it
\* exceeds the range of the counter type.
C13_CountIsRemaining ==
    op = "count" =>
        /\ answer = Some(Len(pre.iter))
        /\ answer = Some(Len(orig) - pre.k - pre.m)
        /\ answer = Some(Iter_count(pre.iter))
        /\ count = pre.count

\* count returning more than the counter type can hold, the counter not 0
C13_Witness ==
    /\ op = "count"
    /\ answer[1] > Ty_MAX(ctr.ty)
    /\ pre.count > 0 /\ pre.m > 0

(* ---- the extension trait EnumerateNumber ---- *)
\* the built-in types Counter is implemented for (impl_counter!)
CounterImpls ==
    {"i8", "i16", "i32", "i64", "i128", "isize",
     "u8", "u16", "u32", "u64", "u128", "usize", "f32", "f64"}

\* the named methods of EnumerateNumber (def_iterator_ext!)
ConvenienceCalls ==
    {[name |-> "enumerate_i8", ty |-> "i8"],
     [name |-> "enumerate_i16", ty |-> "i16"],
     [name |-> "enumerate_i32", ty |-> "i32"],
     [name |-> "enumerate_i64", ty |-> "i64"],
     [name |-> "enumerate_i128", ty |-> "i128"],
     [name |-> "enumerate_isize", ty |-> "isize"],
     [name |-> "enumerate_u8", ty |-> "u8"],
     [name |-> "enumerate_u16", ty |-> "u16"],
     [name |-> "enumerate_u32", ty |-> "u32"],
     [name |-> "enumerate_u64", ty |-> "u64"],
     [name |-> "enumerate_u128", ty |-> "u128"],
     [name |-> "enumerate_f32", ty |-> "f32"],
     [name |-> "enumerate_f64", ty |-> "f64"]}

\* Default::default() of a built-in numeric type
Ty_default(ty) == 0

\* the body shared by every named method and by enumerate_number::<N>
Enumerate_new(it, ty) == [iter |-> it, count |-> Ty_default(ty)]

(* ---- C14 ---- *)
\* C14: EnumerateNumber offers a named method for every built-in numeric type
\* Counter is implemented for, and each named method, like the generic one,
\* gives an adapter holding the given iterator untouched and a counter at
\* the zero of its type.
C14_CallForEveryCounterType ==
    /\ \A ty \in CounterImpls : \E call \in ConvenienceCalls : call.ty = ty
    /\ \A call \in ConvenienceCalls :
          /\ call.ty \in CounterImpls
          /\ Enumerate_new(orig, call.ty) = [iter |-> orig, count |-> 0]
    /\ op = "enumerate_u8" =>
          [iter |-> iter, count |-> count] = Enumerate_new(orig, "u8")

(* ---- C15 ---- *)
BackCalls == {"next_back", "nth_back"}

\* C15: next_back and nth_back never change the stored counter, whether they
\* yield or return None, and a next that follows yields the counter of the
\* next front element, as if no backward call had been made.
C15_BackwardKeepsCounter ==
    [][/\ op' \in BackCalls => count' = count
       /\ (op \in BackCalls /\ op' = "next" /\ ret' # None) =>
             ret' = Enumerate_next(pre.iter, pre.count).ret]_vars

\* a next that yields right after an nth_back that yielded, the counter not 0
C15_Witness ==
    /\ op = "next" /\ ret # None
    /\ Len(yielded) >= 3
    /\ yielded[Len(yielded) - 1].op = "nth_back"
    /\ yielded[Len(yielded) - 1].n >= 1
    /\ ret[1][1] > 0

(* ---- C16 ---- *)
\* C16: nth(n) with n at or beyond the number of elements left returns None,
\* leaves the inner iterator empty and leaves the stored counter as it was
\* before the call; next on an empty inner iterator returns None without
\* changing the counter.
C16_ExhaustionKeepsCounter ==
    /\ (op = "nth" /\ arg >= Len(pre.iter)) =>
          (ret = None /\ iter = << >> /\ count = pre.count)
    /\ (op = "next" /\ pre.iter = << >>) =>
          (ret = None /\ iter = << >> /\ count = pre.count)

\* an nth(n), n >= 1, past the end with elements left and the counter not 0
C16_Witness ==
    /\ op = "nth" /\ arg >= Len(pre.iter) /\ arg >= 1
    /\ pre.iter # << >>
    /\ pre.count > 0

(* ---- C17 ---- *)
\* the counter of the element at position p of the original sequence
PositionCounter(p) == FromDefault(p)

InnerAlone ==
    IF op = "next" THEN Iter_next(pre.iter)
    ELSE IF op = "nth" THEN Iter_nth(pre.iter, arg)
    ELSE IF op = "next_back" THEN Iter_next_back(pre.iter)
    ELSE Iter_nth_back(pre.iter, arg)

\* C18: in every interleaving of next, next_back, nth and nth_back the
\* element of each result is what the inner iterator alone would have
\* returned for the same calls, so every element of the original sequence
\* is yielded at most once and none is duplicated or reordered.
C18_ElementsPassThrough ==
    /\ op \in {"next", "nth", "next_back", "nth_back"} =>
          /\ iter = InnerAlone.iter
          /\ (ret = None) = (InnerAlone.ret = None)
          /\ ret # None => ret[1][2] = InnerAlone.ret[1]
    /\ \A i \in DOMAIN yielded : yielded[i].e = orig[yielded[i].pos + 1]
    /\ \A i, j \in DOMAIN yielded : i # j => yielded[i].pos # yielded[j].pos
    /\ \A i, j \in DOMAIN yielded :
          (i < j /\ yielded[i].op \in {"next", "nth"}
                 /\ yielded[j].op \in {"next", "nth"}) =>
             yielded[i].pos < yielded[j].pos
    /\ \A i, j \in DOMAIN yielded :
          (i < j /\ yielded[i].op \in BackCalls /\ yielded[j].op \in BackCalls) =>
             yielded[i].pos > yielded[j].pos

\* every element of a four-element sequence yielded, by all four methods
C18_Witness ==
    /\ Len(yielded) = 4 /\ iter = << >>
    /\ {yielded[i].op : i \in DOMAIN yielded}
          = {"next", "nth", "next_back", "nth_back"}
====
